---------------------------- MODULE Spec2Model ----------------------------
(***************************************************************************)
(* A model of modeldag.ModelDAG (src/modeldag/modeldag.py): the model      *)
(* registry (get_model / change_model), the dependency index               *)
(* (get_modeldf, entry_dependencies, entry_inputof), the closures          *)
(* (get_backward_entries / get_forward_entries), the function resolver     *)
(* (_parse_input_func) and the draw engine (draw / _draw / redraw_from).   *)
(*                                                                         *)
(* Python values are tagged records, so that "key absent", None and a      *)
(* present value stay distinct.  A string that may hold a reference is a   *)
(* sequence of one-character strings, so that the '@' parsing is computed. *)
(* A table (pandas.DataFrame) is a function from column labels to the      *)
(* content of the column; the content is its provenance: "old" (supplied   *)
(* by the caller), "new" (written by this draw) or "empty" (zero rows).    *)
(***************************************************************************)
EXTENDS Integers, Sequences, FiniteSets, TLC

VARIABLES
    model,      \* self.model: the stored document (sequence of entries)
    obj,        \* self.obj: the attribute names of the owner object
    data,       \* the table the caller holds and may pass as data=
    pc,         \* "idle"; "loop" while _draw iterates over the entries; "done"
                \* once the call has returned or raised; "diverged" in a
                \* closure loop that never ends
    call,       \* the operation called and its arguments
    snap,       \* _draw's local copy of the document
    work,       \* _draw's working table
    idx,        \* position of _draw's loop in the document
    invoked,    \* entries whose sampling callable the running draw has invoked
    changes,    \* number of committed change_model calls
    ret         \* outcome of the last completed call

vars == <<model, obj, data, pc, call, snap, work, idx, invoked, changes, ret>>

\* ------------------------------------------------------------------ bounds
MaxEntries == 2
MaxChanges == 1

\* ------------------------------------------------------------ Python values
NoneLabel == "<None>"

Num(c) == [tag |-> "num", s |-> <<c>>]
Str(cs) == [tag |-> "str", s |-> cs]

EmptyDict == [k \in {} |-> Num("0")]

KwAbsent == [tag |-> "absent", d |-> EmptyDict]
KwNone == [tag |-> "none", d |-> EmptyDict]
KwDict(d) == [tag |-> "dict", d |-> d]

AsAbsent == [tag |-> "absent", names |-> <<>>]
AsNone == [tag |-> "none", names |-> <<>>]
AsStr(n) == [tag |-> "str", names |-> <<n>>]
AsList(ns) == [tag |-> "list", names |-> ns]

FnAbsent == [tag |-> "absent", id |-> ""]
FnCallable(id) == [tag |-> "callable", id |-> id]
FnStr(id) == [tag |-> "str", id |-> id]

Entry(n, f, k, a) == [name |-> n, func |-> f, kwargs |-> k, as |-> a]

Range(s) == {s[i] : i \in DOMAIN s}

Keys(doc) == {doc[i].name : i \in DOMAIN doc}

IndexOf(doc, k) == CHOOSE i \in DOMAIN doc : doc[i].name = k

\* {**a, **b}
Merge(a, b) ==
    [k \in (DOMAIN a) \cup (DOMAIN b) |-> IF k \in DOMAIN b THEN b[k] ELSE a[k]]

\* ---------------------------------------------------------- Model registry
\* The outcome of a call: a status and the value returned when it is "ok".
Ok(v) == [status |-> "ok", val |-> v]
Raise(e) == [status |-> e, val |-> <<>>]

\* model[k]["kwargs"] = {**model[k].get("kwargs", {}), **v} on the copy `doc`.
MergeReplaces(doc, k, v) ==
    [doc EXCEPT ![IndexOf(doc, k)].kwargs = KwDict(v)]

MergeKwargs(doc, k, v) ==
    LET old == doc[IndexOf(doc, k)].kwargs
    IN  [doc EXCEPT ![IndexOf(doc, k)].kwargs =
             KwDict(Merge(old.d, v))]

\* The loop of get_model over **kwargs, in the order the keywords were given;
\* ov is a sequence of [key, val] pairs.
RECURSIVE ApplyOverrides(_, _)
ApplyOverrides(doc, ov) ==
    IF ov = <<>> THEN Ok(doc)
    ELSE LET k == Head(ov).key
             v == Head(ov).val
         IN  IF k \notin Keys(doc) THEN Raise("KeyError")
             ELSE IF doc[IndexOf(doc, k)].kwargs.tag = "none" THEN Raise("TypeError")
             ELSE ApplyOverrides(MergeKwargs(doc, k, v), Tail(ov))

\* Python binds the keywords of a call f(**kw) to the signature
\* get_model(self, funcs={}, **kwargs): the keyword self collides with the bound
\* instance (TypeError), the keyword funcs is the parameter funcs, the rest is
\* **kwargs.  kw is the sequence of [key, val] pairs of the call.
IsOverride(p) == p.key \notin {"funcs", "self"}

Overrides(kw) == SelectSeq(kw, IsOverride)

BindsSelf(kw) == \E i \in DOMAIN kw : kw[i].key = "self"

\* get_model's body: deepcopy, then the loop over **kwargs; funcs is never read.
get_model(doc, funcs, ov) == ApplyOverrides(doc, ov)

\* self.get_model(**kw), as change_model and draw call it.
CallGetModel(doc, kw) ==
    IF BindsSelf(kw) THEN Raise("TypeError")
    ELSE get_model(doc, <<>>, Overrides(kw))

\* deepcopy(self.model) (get_model) and deepcopy(model) (_draw): what the
\* original document holds once the copy has been changed into `changed`.
deepcopy_alias(original, changed) == changed

deepcopy(original, changed) == original

\* data.copy() in _draw: what the caller's table holds once the copy has been
\* changed into `changed`.
copy(original, changed) == original

\* ------------------------------------------- Reference parser / dependency index
\* type(l) is str and "@" in l
IsRef(v) == v.tag = "str" /\ \E i \in DOMAIN v.s : v.s[i] = "@"

RECURSIVE Join(_)
Join(cs) == IF cs = <<>> THEN "" ELSE Head(cs) \o Join(Tail(cs))

\* l.split("@")[-1]: what follows the last '@'
AfterLastAt(cs) ==
    LET last == CHOOSE i \in DOMAIN cs :
                    cs[i] = "@" /\ \A j \in DOMAIN cs : cs[j] = "@" => j <= i
    IN  SubSeq(cs, last + 1, Len(cs))

\* t.split(" ")[0]: what precedes the first blank
BeforeFirstBlank(cs) ==
    IF \E i \in DOMAIN cs : cs[i] = " "
    THEN LET first == CHOOSE i \in DOMAIN cs :
                          cs[i] = " " /\ \A j \in DOMAIN cs : cs[j] = " " => i <= j
         IN  SubSeq(cs, 1, first - 1)
    ELSE cs

\* l.split("@")[-1].split(" ")[0]
RefKey(v) == Join(BeforeFirstBlank(AfterLastAt(v.s)))

\* the "input" list of one row of the model table
EntryInputs(e) ==
    IF e.kwargs.tag # "dict" THEN {}
    ELSE {RefKey(e.kwargs.d[k]) : k \in {q \in DOMAIN e.kwargs.d : IsRef(e.kwargs.d[q])}}

\* modeldict_to_modeldf: the "entry" cell of one row (exploded by get_modeldf).
\* A missing or None "as" is filled with the model name.
EntryNames(e) ==
    IF e.as.tag \in {"absent", "none"} THEN {e.name} ELSE Range(e.as.names)

NaN == "<NaN>"

\* get_modeldf(explode=True): the rows (entry, input) of the exploded table, an
\* empty input list exploding to NaN.  modeldf["kwargs"] raises KeyError when no
\* entry of the document has the key kwargs (the table has no such column).
get_modeldf(doc) ==
    IF \A i \in DOMAIN doc : doc[i].kwargs.tag = "absent" THEN Raise("KeyError")
    ELSE Ok(UNION {
            { [entry |-> c, input |-> n] :
                c \in EntryNames(doc[i]),
                n \in (IF EntryInputs(doc[i]) = {} THEN {NaN} ELSE EntryInputs(doc[i])) }
            : i \in DOMAIN doc })

\* self.entries
entries(doc) ==
    LET df == get_modeldf(doc)
    IN  IF df.status # "ok" THEN df ELSE Ok({r.entry : r \in df.val})

\* the rows whose input is not NaN: entry_dependencies.dropna() (indexed by
\* entry) and entry_inputof (indexed by input) hold the same pairs
Edges(rows) == {r \in rows : r.input # NaN}

\* ------------------------------------------------------------ Graph traversal
\* depends_on.loc[depends_on.index.isin(names)].values
DependsOn(edges, names) == {r.input : r \in {q \in edges : q.entry \in names}}

\* inputs_of.loc[inputs_of.index.isin(names)].values
InputsOf(edges, names) == {r.entry : r \in {q \in edges : q.input \in names}}

Nodes(edges) == {r.entry : r \in edges} \cup {r.input : r \in edges}

\* The while loops of get_backward_entries / get_forward_entries.  The returned
\* list is kept as the set of its elements.  The code has no cycle guard: a
\* frontier that is still non-empty after as many rounds as the graph has nodes
\* lies on a cycle, and the loop never ends ("diverges").
RECURSIVE BackwardLoop(_, _, _, _)
BackwardLoop(edges, leads_to_changing, backward_entries, rounds) ==
    IF leads_to_changing = {} THEN Ok(backward_entries)
    ELSE IF rounds > Cardinality(Nodes(edges)) THEN Raise("diverges")
    ELSE BackwardLoop(edges, DependsOn(edges, leads_to_changing),
                      backward_entries \cup leads_to_changing, rounds + 1)

RECURSIVE ForwardLoop(_, _, _, _)
ForwardLoop(edges, leads_to_changing, forward_entries, rounds) ==
    IF leads_to_changing = {} THEN Ok(forward_entries)
    ELSE IF rounds > Cardinality(Nodes(edges)) THEN Raise("diverges")
    ELSE ForwardLoop(edges, InputsOf(edges, leads_to_changing),
                     forward_entries \cup leads_to_changing, rounds + 1)

get_backward_entries(doc, names, incl_input) ==
    LET df == get_modeldf(doc)
    IN  IF df.status # "ok" THEN df
        ELSE BackwardLoop(Edges(df.val), DependsOn(Edges(df.val), names),
                          IF incl_input THEN names ELSE {}, 0)

get_forward_entries(doc, names, incl_input) ==
    LET df == get_modeldf(doc)
    IN  IF df.status # "ok" THEN df
        ELSE ForwardLoop(Edges(df.val), InputsOf(Edges(df.val), names),
                         IF incl_input THEN names ELSE {}, 0)

\* ----------------------------------------------------------- Function resolver
\* The attributes every ModelDAG instance has (its methods, properties and the
\* two instance attributes).
EngineAttrs ==
    {"model", "obj", "to_graph", "to_networkx", "to_graphviz", "visualize",
     "get_model", "change_model", "get_func_parameters", "get_backward_entries",
     "get_forward_entries", "get_modeldf", "redraw_from", "draw", "draw_param",
     "draw_from_pdf", "_draw", "_parse_input_func", "entries",
     "entry_dependencies", "entry_inputof"}

\* The expressions eval() resolves in the module's scope (numpy is imported as np).
EvalScope == {"np.random.normal", "np.random.uniform"}

Resolved(kind, id) == Ok([kind |-> kind, id |-> id])

\* _parse_input_func(name, func); owner is the set of attributes of self.obj.
\* The two draw_<name> branches do not test func.
_parse_input_func(name, func, owner) ==
    IF func.tag = "callable" THEN Resolved("callable", func.id)
    ELSE IF func.tag = "str" /\ func.id \in EngineAttrs THEN Resolved("engine", func.id)
    ELSE IF func.tag = "str" /\ func.id \in owner THEN Resolved("owner", func.id)
    ELSE IF ("draw_" \o name) \in EngineAttrs THEN Resolved("engine", "draw_" \o name)
    ELSE IF ("draw_" \o name) \in owner THEN Resolved("owner", "draw_" \o name)
    ELSE IF func.tag = "str" /\ func.id \in EvalScope THEN Resolved("eval", func.id)
    ELSE Raise("ValueError")

\* ------------------------------------------------------------------ Draw engine
EmptyTable == [c \in {} |-> "old"]

\* v.get("as", name) under np.hstack: the labels one entry gives the size == 0
\* table.  A None alias is not replaced by the name here.
ZeroSizeLabels(e) ==
    IF e.as.tag = "absent" THEN {e.name}
    ELSE IF e.as.tag = "none" THEN {NoneLabel}
    ELSE Range(e.as.names)

\* output_name = param_model.get("as", param_name), None solved to param_name
OutputNames(e) ==
    IF e.as.tag \in {"absent", "none"} THEN {e.name} ELSE Range(e.as.names)

\* data[key]: KeyError on a table without the column key
LookupFillsMissing(table, key) ==
    IF key \in DOMAIN table THEN Ok(table[key]) ELSE Ok("nan")

Lookup(table, key) ==
    IF key \in DOMAIN table THEN Ok(table[key]) ELSE Raise("KeyError")

\* the keys of kwargs holding a reference: type(v) is str and "@" in v
RefParams(e) ==
    IF e.kwargs.tag # "dict" THEN {}
    ELSE {k \in DOMAIN e.kwargs.d : IsRef(e.kwargs.d[k])}

\* inprop after the loop over kwargs and inprop["func"] = ...: inprop is the
\* kwargs dict of the copy itself, unless kwargs is missing or None.
Array(c) == [tag |-> "array", s |-> <<c>>]
FuncValue(f) == [tag |-> "func", s |-> <<f.tag, f.id>>]

Inprop(e, table) ==
    Merge([k \in DOMAIN e.kwargs.d |->
              IF k \in RefParams(e) THEN Array(Lookup(table, RefKey(e.kwargs.d[k])).val)
              ELSE e.kwargs.d[k]],
          [k \in {"func"} |-> FuncValue(e.func)])

\* The sampling callables of the model: "Boom" raises whenever it is called,
\* every other callable returns samples.
CallableRaises(fn) == fn.kind = "callable" /\ fn.id = "Boom"

\* if limit_to_entries is not None and param_name not in limit_to_entries: continue
Skips(limit, e) == limit.given /\ e.name \notin limit.names

\* data[output_name] = samples.T
WriteColumns(table, cols) ==
    [c \in (DOMAIN table) \cup cols |-> IF c \in cols THEN "new" ELSE table[c]]

NoLimit == [given |-> FALSE, names |-> {}]
Limit(ns) == [given |-> TRUE, names |-> ns]

\* --------------------------------------------------------------------- state
NoFn == [kind |-> "", id |-> ""]

Ret(status) ==
    [status |-> status, doc |-> <<>>, table |-> EmptyTable, names |-> {}, fn |-> NoFn]

NoCall ==
    [op |-> "", kw |-> <<>>, funcs |-> EmptyDict, size |-> "", limit |-> NoLimit,
     withData |-> FALSE, names |-> {}, incl |-> FALSE, dir |-> "", func |-> FnAbsent]

\* ------------------------------------------------------------ modelled inputs
\* The i-th entry of a modelled document is named NameSeq[i].
NameSeq == <<"a", "b", "c", "d">>

Chars(ref) ==
    CASE ref = "@a" -> <<"@", "a">>
      [] ref = "@b" -> <<"@", "b">>
      [] ref = "@x +" -> <<"@", "x", " ", "+">>

One == Num("1")
Two == Num("2")

Shapes ==
    {[func |-> FnCallable("F"), kwargs |-> KwAbsent, as |-> AsAbsent],
     [func |-> FnCallable("F"), kwargs |-> KwNone, as |-> AsNone],
     [func |-> FnCallable("F"), kwargs |-> KwDict([k \in {"scale"} |-> One]),
      as |-> AsList(<<"x", "y">>)],
     [func |-> FnCallable("F"), kwargs |-> KwDict([k \in {"loc"} |-> Str(Chars("@a"))]),
      as |-> AsStr("x")],
     [func |-> FnCallable("F"),
      kwargs |-> KwDict([k \in {"loc", "scale"} |->
                            IF k = "loc" THEN Str(Chars("@b")) ELSE One]),
      as |-> AsAbsent],
     [func |-> FnCallable("F"), kwargs |-> KwDict([k \in {"loc"} |-> Str(Chars("@x +"))]),
      as |-> AsAbsent],
     [func |-> FnAbsent, kwargs |-> KwAbsent, as |-> AsAbsent],
     [func |-> FnCallable("Boom"), kwargs |-> KwAbsent, as |-> AsNone],
     [func |-> FnStr("np.random.normal"), kwargs |-> KwDict([k \in {"scale"} |-> One]),
      as |-> AsAbsent]}

Docs ==
    UNION {
        {[i \in 1..n |-> Entry(NameSeq[i], sh[i].func, sh[i].kwargs, sh[i].as)] :
            sh \in [1..n -> Shapes]}
        : n \in 0..MaxEntries }

Columns == {NameSeq[i] : i \in 1..MaxEntries} \cup {"x", "y"}

Owner == {"rvs", "draw_a"}

DataPool == {[c \in Columns |-> "old"], [c \in {"a"} |-> "old"]}

Pair(k, v) == [key |-> k, val |-> v]

LocTwo == [p \in {"loc"} |-> Two]

KwCalls ==
    {<<>>}
    \cup {<<Pair(k, LocTwo)>> : k \in {"a", "b", "zz", "funcs", "self"}}
    \cup {<<Pair("a", LocTwo), Pair(k, [p \in {"scale"} |-> Two])>> : k \in {"b", "zz"}}

DrawKwCalls == {<<>>, <<Pair("a", LocTwo)>>, <<Pair("zz", LocTwo)>>}

FuncsCalls == {EmptyDict, [k \in {"a"} |-> FnCallable("G")]}

Sizes == {"0", "N"}

Limits == {NoLimit, Limit({"a"}), Limit({"x"}), Limit({"b", "y"})}

RedrawNames == {ns \in SUBSET Columns : Cardinality(ns) \in {1, 2}}

ResolveNames == {"a", "b", "param"}

ResolveFuncs ==
    {FnAbsent, FnCallable("F"), FnStr("draw"), FnStr("rvs"),
     FnStr("np.random.normal"), FnStr("nope")}

\* ----------------------------------------------------------------------- Init
Init ==
    /\ model \in Docs
    /\ obj = Owner
    /\ data \in DataPool
    /\ pc = "idle"
    /\ call = NoCall
    /\ snap = <<>>
    /\ work = EmptyTable
    /\ idx = 0
    /\ invoked = {}
    /\ changes = 0
    /\ ret = Ret("none")

\* -------------------------------------------------------------------- actions
\* A call is made when the engine is idle; when it returns or raises, pc is
\* "done" and ret holds the outcome, the locals of _draw being gone.
Finish(r) ==
    /\ pc' = "done"
    /\ ret' = r
    /\ snap' = <<>>
    /\ work' = EmptyTable
    /\ idx' = 0

\* get_model(funcs=funcs, **kw), called by the user
GetModelCall(funcs, kw) ==
    /\ pc = "idle"
    /\ \A i \in DOMAIN kw : kw[i].key # "funcs"
    /\ LET r == IF BindsSelf(kw) THEN Raise("TypeError")
                ELSE get_model(model, funcs, Overrides(kw))
       IN  /\ Finish(IF r.status = "ok" THEN [Ret("ok") EXCEPT !.doc = r.val]
                     ELSE Ret(r.status))
           /\ model' = deepcopy(model, IF r.status = "ok" THEN r.val ELSE model)
    /\ call' = [NoCall EXCEPT !.op = "get_model", !.kw = kw, !.funcs = funcs]
    /\ UNCHANGED <<obj, data, invoked, changes>>

\* change_model(**kw): self.model = self.get_model(**kw)
ChangeModel(kw) ==
    /\ pc = "idle"
    /\ changes < MaxChanges
    /\ LET r == CallGetModel(model, kw)
       IN  /\ Finish(Ret(r.status))
           /\ model' = IF r.status = "ok" THEN r.val ELSE model
           /\ changes' = IF r.status = "ok" THEN changes + 1 ELSE changes
    /\ call' = [NoCall EXCEPT !.op = "change_model", !.kw = kw]
    /\ UNCHANGED <<obj, data, invoked>>

\* The part of _draw before the loop, on the document `doc` that get_model
\* returned (lines 421-429).
EnterDraw(doc, size, withData) ==
    IF size = "0"
    THEN Finish(IF doc = <<>> THEN Ret("ValueError")
                ELSE [Ret("ok") EXCEPT !.table =
                         [c \in UNION {ZeroSizeLabels(doc[i]) : i \in DOMAIN doc}
                             |-> "empty"]])
    ELSE /\ pc' = "loop"
         /\ snap' = doc
         /\ work' = IF withData THEN data ELSE EmptyTable
         /\ idx' = 1
         /\ UNCHANGED ret

\* draw(size, limit_to_entries, data, **kw), called by the user
DrawCall(size, limit, withData, kw) ==
    /\ pc = "idle"
    /\ LET r == CallGetModel(model, kw)
       IN  IF r.status # "ok"
           THEN Finish(Ret(r.status)) /\ UNCHANGED model
           ELSE EnterDraw(r.val, size, withData) /\ model' = deepcopy(model, r.val)
    /\ invoked' = {}
    /\ call' = [NoCall EXCEPT !.op = "draw", !.kw = kw, !.size = size,
                              !.limit = limit, !.withData = withData]
    /\ UNCHANGED <<obj, data, changes>>

\* redraw_from(name, data, incl_name): names is the set of the requested names
RedrawCall(names, incl_name) ==
    /\ pc = "idle"
    /\ LET fwd == [n \in names |-> get_forward_entries(model, {n}, FALSE)]
           union == UNION {fwd[n].val : n \in {q \in names : fwd[q].status = "ok"}}
           single == get_forward_entries(model, names, incl_name)
           several == Cardinality(names) > 1
           failed == IF several THEN {fwd[n].status : n \in names} \ {"ok"}
                     ELSE {single.status} \ {"ok"}
           limit == IF several
                    THEN Limit(union \cup (IF incl_name THEN names ELSE {}))
                    ELSE Limit(single.val)
       IN  /\ call' = [NoCall EXCEPT !.op = "redraw_from", !.names = names,
                          !.incl = incl_name, !.size = "None", !.withData = TRUE,
                          !.limit = IF failed = {} THEN limit ELSE NoLimit]
           /\ IF "diverges" \in failed
              THEN pc' = "diverged" /\ UNCHANGED <<model, snap, work, idx, ret>>
              ELSE IF failed # {}
              THEN Finish(Ret(CHOOSE e \in failed : TRUE)) /\ UNCHANGED model
              ELSE IF several /\ names \cap union # {}
              THEN Finish(Ret("ValueError")) /\ UNCHANGED model
              ELSE /\ EnterDraw(get_model(model, EmptyDict, <<>>).val, "None", TRUE)
                   /\ model' = deepcopy(model, model)
    /\ invoked' = {}
    /\ UNCHANGED <<obj, data, changes>>

\* One iteration of the loop of _draw (lines 435-465).
DrawStep ==
    /\ pc = "loop"
    /\ idx <= Len(snap)
    /\ LET e == snap[idx]
           missing == {k \in RefParams(e) :
                          Lookup(work, RefKey(e.kwargs.d[k])).status # "ok"}
           fn == _parse_input_func(e.name, e.func, obj)
           after == IF e.kwargs.tag = "dict"
                    THEN [snap EXCEPT ![idx].kwargs = KwDict(Inprop(e, work))]
                    ELSE snap
           written == WriteColumns(work, OutputNames(e))
       IN  IF Skips(call.limit, e)
           THEN /\ idx' = idx + 1
                /\ UNCHANGED <<model, data, pc, snap, work, invoked, ret>>
           ELSE IF missing # {}
           THEN /\ Finish(Ret("KeyError"))
                /\ UNCHANGED <<model, data, invoked>>
           ELSE IF fn.status # "ok"
           THEN /\ Finish(Ret("ValueError"))
                /\ model' = deepcopy(model, after)
                /\ UNCHANGED <<data, invoked>>
           ELSE IF CallableRaises(fn.val)
           THEN /\ Finish(Ret("Exception"))
                /\ invoked' = invoked \cup {e.name}
                /\ model' = deepcopy(model, after)
                /\ UNCHANGED data
           ELSE /\ snap' = after
                /\ work' = written
                /\ idx' = idx + 1
                /\ invoked' = invoked \cup {e.name}
                /\ model' = deepcopy(model, after)
                /\ data' = IF call.withData THEN copy(data, written) ELSE data
                /\ UNCHANGED <<pc, ret>>
    /\ UNCHANGED <<obj, call, changes>>

\* return data (line 467)
DrawReturn ==
    /\ pc = "loop"
    /\ idx > Len(snap)
    /\ Finish([Ret("ok") EXCEPT !.table = work])
    /\ UNCHANGED <<model, obj, data, call, invoked, changes>>

\* get_forward_entries(name, incl_input) / get_backward_entries(name, incl_input)
ClosureCall(dir, name, incl_input) ==
    /\ pc = "idle"
    /\ LET r == IF dir = "forward" THEN get_forward_entries(model, {name}, incl_input)
                ELSE get_backward_entries(model, {name}, incl_input)
       IN  IF r.status = "diverges"
           THEN pc' = "diverged" /\ UNCHANGED <<ret, snap, work, idx>>
           ELSE Finish(IF r.status = "ok" THEN [Ret("ok") EXCEPT !.names = r.val]
                       ELSE Ret(r.status))
    /\ call' = [NoCall EXCEPT !.op = "closure", !.dir = dir, !.names = {name},
                              !.incl = incl_input]
    /\ UNCHANGED <<model, obj, data, invoked, changes>>

\* draw_param(name, func): resolve the callable, then call it
DrawParamCall(name, func) ==
    /\ pc = "idle"
    /\ LET fn == _parse_input_func(name, func, obj)
       IN  Finish(IF fn.status # "ok" THEN Ret(fn.status)
                  ELSE [Ret(IF CallableRaises(fn.val) THEN "Exception" ELSE "ok")
                           EXCEPT !.fn = fn.val])
    /\ call' = [NoCall EXCEPT !.op = "draw_param", !.names = {name}, !.func = func]
    /\ UNCHANGED <<model, obj, data, invoked, changes>>

\* The caller drops the outcome of the call and is ready for the next one.
Discard ==
    /\ pc = "done"
    /\ pc' = "idle"
    /\ call' = NoCall
    /\ ret' = Ret("none")
    /\ invoked' = {}
    /\ UNCHANGED <<model, obj, data, snap, work, idx, changes>>

Next ==
    \/ \E funcs \in FuncsCalls, kw \in KwCalls : GetModelCall(funcs, kw)
    \/ \E kw \in KwCalls : ChangeModel(kw)
    \/ \E size \in Sizes, limit \in Limits, withData \in BOOLEAN, kw \in DrawKwCalls :
          DrawCall(size, limit, withData, kw)
    \/ \E names \in RedrawNames, incl_name \in BOOLEAN : RedrawCall(names, incl_name)
    \/ DrawStep
    \/ DrawReturn
    \/ \E dir \in {"forward", "backward"}, name \in Columns, incl_input \in BOOLEAN :
          ClosureCall(dir, name, incl_input)
    \/ \E name \in ResolveNames, func \in ResolveFuncs : DrawParamCall(name, func)
    \/ Discard

Spec == Init /\ [][Next]_vars

\* ------------------------------------------------------------------ properties
\* The reference graph of a document, read off the document itself: a pair
\* <<X, c>> says that the entry producing column c has a kwargs value "@X".
RefGraph(doc) ==
    UNION {{<<x, c>> : x \in EntryInputs(doc[i]), c \in OutputNames(doc[i])}
           : i \in DOMAIN doc}

RECURSIVE Reach(_, _, _)
Reach(graph, from, forward) ==
    LET next == from \cup {IF forward THEN p[2] ELSE p[1] :
                             p \in {q \in graph : (IF forward THEN q[1] ELSE q[2]) \in from}}
    IN  IF next = from THEN from ELSE Reach(graph, next, forward)

\* the columns that transitively reference a name of `names`
Consumers(doc, names) ==
    Reach(RefGraph(doc), {p[2] : p \in {q \in RefGraph(doc) : q[1] \in names}}, TRUE)

\* the names that a name of `names` transitively references
Dependencies(doc, names) ==
    Reach(RefGraph(doc), {p[1] : p \in {q \in RefGraph(doc) : q[2] \in names}}, FALSE)

Acyclic(doc) ==
    \A p \in RefGraph(doc) : p[1] \notin Consumers(doc, {p[1]})

AllOutputNames(doc) == UNION {OutputNames(doc[i]) : i \in DOMAIN doc}

\* C1: draw(size=0) on a document (here: one with an entry at least) returns a
\* zero-row table whose columns are exactly the exploded output names of the
\* document (a missing or None alias counting as the entry name), and invokes
\* no sampling callable.
C1_ZeroSizeSchema ==
    (pc = "done" /\ call.op = "draw" /\ call.size = "0" /\ call.kw = <<>> /\ model # <<>>)
        => /\ ret.status = "ok"
           /\ DOMAIN ret.table = AllOutputNames(model)
           /\ \A c \in DOMAIN ret.table : ret.table[c] = "empty"
           /\ invoked = {}

\* C2: no step of get_model, draw or redraw_from changes the stored document
\* or the table the caller passed; the stored document changes only in a
\* change_model call.
C2_StoredDocumentAndDataKept ==
    [][/\ data' = data
       /\ model' # model => (pc = "idle" /\ call'.op = "change_model")]_vars

C2_Witness ==
    /\ pc = "done"
    /\ call.op = "draw"
    /\ call.kw # <<>>
    /\ call.withData
    /\ ret.status = "ok"
    /\ \E c \in DOMAIN data : ret.table[c] # data[c]

\* What a change_model(key={...}) call leaves alone: every other entry, and of
\* the entry key its func, its alias and the kwargs keys that are not named.
C3_OnlyNamedKeysChange(key, val) ==
    /\ Len(model') = Len(model)
    /\ \A i \in DOMAIN model :
          /\ model'[i].name = model[i].name
          /\ model'[i].func = model[i].func
          /\ model'[i].as = model[i].as
          /\ model[i].name # key => model'[i].kwargs = model[i].kwargs
          /\ \A q \in (DOMAIN model[i].kwargs.d) \ (DOMAIN val) :
                /\ q \in DOMAIN model'[i].kwargs.d
                /\ model'[i].kwargs.d[q] = model[i].kwargs.d[q]
          /\ (DOMAIN model'[i].kwargs.d) \subseteq (DOMAIN model[i].kwargs.d) \cup (DOMAIN val)

C3_IsChangeOfOneKey == pc = "idle" /\ call'.op = "change_model" /\ Len(call'.kw) = 1

\* C3 as stated: change_model(key={...}) changes only the named kwargs keys of
\* the entry key, and for a key that names no entry it fails with a
\* key-not-found error, the stored document unchanged.
C3_AsStated ==
    [][C3_IsChangeOfOneKey =>
         LET key == call'.kw[1].key
             val == call'.kw[1].val
         IN  /\ C3_OnlyNamedKeysChange(key, val)
             /\ key \notin Keys(model) => (ret'.status = "KeyError" /\ model' = model)]_vars

\* C3 amended: as stated, the key-not-found failure being that of every key
\* but funcs and self, the two keywords Python binds to the method's own
\* parameters instead of **kwargs.
C3_ChangeModelFrame ==
    [][C3_IsChangeOfOneKey =>
         LET key == call'.kw[1].key
             val == call'.kw[1].val
         IN  /\ C3_OnlyNamedKeysChange(key, val)
             /\ (key \notin Keys(model) /\ key \notin {"funcs", "self"})
                    => (ret'.status = "KeyError" /\ model' = model)]_vars

C3_Witness ==
    /\ pc = "done"
    /\ call.op = "change_model"
    /\ Len(call.kw) = 1
    /\ ret.status = "ok"
    /\ \E i \in DOMAIN model :
          /\ model[i].name = call.kw[1].key
          /\ DOMAIN model[i].kwargs.d = {"loc", "scale"}
          /\ model[i].kwargs.d["loc"] = Two
          /\ model[i].kwargs.d["scale"] = One

\* C4: get_model(funcs, **overrides) returns a copy in which every entry named
\* in funcs has its func replaced by the value given, the other entries keeping
\* their func.
C4_FuncsReplaceFunc ==
    (pc = "done" /\ call.op = "get_model" /\ ret.status = "ok")
        => /\ Len(ret.doc) = Len(model)
           /\ \A i \in DOMAIN model :
                 ret.doc[i].func = IF model[i].name \in DOMAIN call.funcs
                                   THEN call.funcs[model[i].name]
                                   ELSE model[i].func

\* C5: on an acyclic document (here: one with an entry at least) the two
\* closure operations terminate and
\* return, as sets, the columns that transitively reference the name
\* (forward) or the names it transitively references (backward), with the name
\* itself exactly when incl_input is true.
C5_ClosuresAreTransitive ==
    (pc \in {"done", "diverged"} /\ call.op = "closure" /\ Acyclic(model)
        /\ model # <<>>)
        => /\ pc = "done"
           /\ ret.status = "ok"
           /\ ret.names = (IF call.dir = "forward" THEN Consumers(model, call.names)
                           ELSE Dependencies(model, call.names))
                          \cup (IF call.incl THEN call.names ELSE {})

\* C6: the table redraw_from(A, data) returns holds, for every column of data
\* outside the forward closure of A (A included), the values of data.
C6_ColumnsOutsideClosureKept ==
    (pc = "done" /\ call.op = "redraw_from" /\ Cardinality(call.names) = 1
        /\ call.incl /\ ret.status = "ok")
        => \A c \in (DOMAIN data) \ (Consumers(model, call.names) \cup call.names) :
              c \in DOMAIN ret.table /\ ret.table[c] = data[c]

\* The columns present when the loop of the running draw reaches position idx:
\* those of the supplied data and those of the entries that precede it in the
\* document and were not skipped.
C7_PresentColumns ==
    (IF call.withData THEN DOMAIN data ELSE {})
    \cup UNION {OutputNames(snap[j]) : j \in {q \in 1..(idx - 1) : ~Skips(call.limit, snap[q])}}

C7_AtMissingReference ==
    /\ pc = "loop"
    /\ idx <= Len(snap)
    /\ ~Skips(call.limit, snap[idx])
    /\ EntryInputs(snap[idx]) \ C7_PresentColumns # {}

\* C7: when the draw processes an entry with a reference '@X' and X is neither
\* a column of the supplied data nor the output of an earlier entry that was
\* processed, the draw ends there with an error and returns no table.
C7_MissingColumnAborts ==
    [][C7_AtMissingReference
          => (pc' = "done" /\ ret'.status = "KeyError" /\ ret'.table = EmptyTable)]_vars

\* the reference is to the output of an entry that comes later in the document
C7_Witness ==
    /\ C7_AtMissingReference
    /\ call.op = "draw"
    /\ ~call.limit.given
    /\ \E j \in (idx + 1)..Len(snap) :
          EntryInputs(snap[idx]) \cap OutputNames(snap[j]) # {}

\* C8: on an acyclic document with an entry at least, redraw_from with two or
\* more names fails, before anything is drawn,
\* exactly when a requested name lies in the forward closure (self excluded) of
\* a requested name; otherwise it draws with limit_to_entries the union of the
\* closures, plus the requested names when incl_name is true.
C8_SeveralNames ==
    [][(pc = "idle" /\ call'.op = "redraw_from" /\ Cardinality(call'.names) > 1
           /\ Acyclic(model) /\ model # <<>>)
          => LET closure == Consumers(model, call'.names)
             IN  IF call'.names \cap closure # {}
                 THEN pc' = "done" /\ ret'.status # "ok"
                 ELSE /\ pc' = "loop"
                      /\ call'.limit =
                            Limit(closure \cup (IF call'.incl THEN call'.names ELSE {}))]_vars

\* C9: with limit_to_entries = L the draw processes the entries whose output
\* column names are in L and skips the entries none of whose output names is.
C9_LimitByOutputName ==
    [][(pc = "loop" /\ idx <= Len(snap) /\ call.limit.given)
          => LET out == OutputNames(snap[idx])
                 skipped == pc' = "loop" /\ invoked' = invoked
             IN  /\ out \subseteq call.limit.names => ~skipped
                 /\ out \cap call.limit.names = {} => skipped]_vars

\* The resolution the precedence list of C10 gives: the draw_<name> conventions
\* only without a func, a string func that names no method being evaluated.
C10_Expected(name, func, owner) ==
    IF func.tag = "callable" THEN Resolved("callable", func.id)
    ELSE IF func.tag = "str" /\ func.id \in EngineAttrs THEN Resolved("engine", func.id)
    ELSE IF func.tag = "str" /\ func.id \in owner THEN Resolved("owner", func.id)
    ELSE IF func.tag = "absent" /\ ("draw_" \o name) \in EngineAttrs
         THEN Resolved("engine", "draw_" \o name)
    ELSE IF func.tag = "absent" /\ ("draw_" \o name) \in owner
         THEN Resolved("owner", "draw_" \o name)
    ELSE IF func.tag = "str" /\ func.id \in EvalScope THEN Resolved("eval", func.id)
    ELSE Raise("ValueError")

\* C10: the resolver follows the precedence callable > engine method > owner
\* method > engine draw_<name> > owner draw_<name> > evaluation, the two
\* draw_<name> conventions applying only when no func is given.
C10_ResolverPrecedence ==
    (pc = "done" /\ call.op = "draw_param")
        => LET want == C10_Expected(CHOOSE n \in call.names : TRUE, call.func, obj)
           IN  IF want.status = "ok" THEN ret.fn = want.val
               ELSE ret.status = want.status

=============================================================================
